---- MODULE Spec2Model ----
(***************************************************************************)
(* fraud_eda.py: a linear script of ten cells over one table of credit-    *)
(* card transactions.  Each cell is one action; an unhandled exception     *)
(* ends the run (pc = "crashed").  The chart files are written under      *)
(* outputs/, which is taken to exist.                                      *)
(*                                                                         *)
(* Units.  Amount is held in thousandths of a currency unit (mills), so    *)
(* that round(x, 2) is a real operation; Time is held in whole seconds;    *)
(* percentages are held as integers scaled by the number of decimals the   *)
(* code rounds them to.  Binary floating-point error is not modelled.      *)
(* The columns V1..V28 are not modelled; the correlation view is reduced   *)
(* to the (Amount, Class) entry, and to its sign.  Standard deviation is   *)
(* not modelled in the amount statistics.                                  *)
(***************************************************************************)
EXTENDS Integers, Sequences, FiniteSets, TLC

VARIABLES pc, csv, bound, df, error, dupes, fraud_summary, amount_stats,
          band_summary, hourly, corr_matrix, summary, charts

vars == <<pc, csv, bound, df, error, dupes, fraud_summary, amount_stats,
          band_summary, hourly, corr_matrix, summary, charts>>

views == <<fraud_summary, amount_stats, band_summary, hourly, corr_matrix, summary>>

\* ------------------------------------------------------------------ bounds

MaxRows == 3

Mills(units, thousandths) == units * 1000 + thousandths

\* The amounts of the general specification: 5.00, 5.004, 50.00, 5000.00.
Amounts == {Mills(5, 0), Mills(5, 4), Mills(50, 0), Mills(5000, 0)}

\* The timestamps of the general specification: hours 0, 1, and 1 of day 2.
Times == {0, 3600, 90000}

\* Both sides of every band boundary.
BoundaryAmounts ==
    {Mills(0, 0), Mills(9, 990), Mills(10, 0), Mills(99, 990), Mills(100, 0),
     Mills(499, 990), Mills(500, 0), Mills(999, 990), Mills(1000, 0),
     Mills(4999, 990), Mills(5000, 0), Mills(25691, 160)}

\* Timestamps around the hour and day boundaries, and a large one.
BoundaryTimes == {0, 3599, 3600, 86399, 86400, 90000, 172799, 1000000000}

Row(t, a, c) == [Time |-> t, Amount |-> a, Class |-> c]

Tables(T, A) ==
    UNION {[1..n -> {Row(t, a, c) : t \in T, a \in A, c \in {0, 1}}] : n \in 0..MaxRows}

\* amounts [5, 50, 5000, 5000, 5000], labels [0, 0, 1, 1, 1]
ScenarioTable ==
    <<Row(0, Mills(5, 0), 0), Row(0, Mills(50, 0), 0), Row(0, Mills(5000, 0), 1),
      Row(0, Mills(5000, 0), 1), Row(0, Mills(5000, 0), 1)>>

\* ------------------------------------------------------------- sentinels

\* creditcard.csv: whether it can be read, and the table it holds.
File(rows)  == [readable |-> TRUE, rows |-> rows]
MissingFile == [readable |-> FALSE, rows |-> <<>>]

\* bound is the set of the script's names that are bound; a name that is not
\* bound yet holds Unbound here.
Unbound == <<>>

NaN == "nan"

NoError == [at |-> "none", type |-> "none"]

\* ---------------------------------------------------------------- helpers

RECURSIVE SumSeq(_)
SumSeq(s) == IF s = <<>> THEN 0 ELSE Head(s) + SumSeq(Tail(s))

Column(rows, name) == [i \in 1..Len(rows) |-> rows[i][name]]

IsLegit(r) == r.Class = 0
IsFraud(r) == r.Class = 1

\* numpy's round: to the nearest, a tie to the even neighbour.  n >= 0, d > 0.
RoundHalfEven(n, d) ==
    LET q == n \div d
        r == n % d
    IN  IF 2 * r < d THEN q
        ELSE IF 2 * r > d THEN q + 1
        ELSE IF q % 2 = 0 THEN q ELSE q + 1

\* round(x, 2) of an amount in mills: a multiple of 10 mills.
Round2(x) == RoundHalfEven(x, 10) * 10

MinOf(s) == s[CHOOSE i \in 1..Len(s) : \A j \in 1..Len(s) : s[i] <= s[j]]
MaxOf(s) == s[CHOOSE i \in 1..Len(s) : \A j \in 1..Len(s) : s[i] >= s[j]]

RECURSIVE SortValues(_)
SortValues(s) ==
    IF s = <<>> THEN <<>>
    ELSE LET k == CHOOSE i \in 1..Len(s) : \A j \in 1..Len(s) : s[i] <= s[j]
         IN  <<s[k]>> \o SortValues(SubSeq(s, 1, k - 1) \o SubSeq(s, k + 1, Len(s)))

\* The set S of integers as an ascending sequence.
RECURSIVE Ascending(_)
Ascending(S) ==
    IF S = {} THEN <<>>
    ELSE LET m == CHOOSE x \in S : \A y \in S : x <= y
         IN  <<m>> \o Ascending(S \ {m})

\* Series.idxmax(): the first position holding the maximum.
IdxMax(s) ==
    CHOOSE i \in 1..Len(s) :
        /\ \A j \in 1..Len(s) : s[j] <= s[i]
        /\ \A j \in 1..(i - 1) : s[j] < s[i]

\* ------------------------------------------- cell 5: class distribution

\* df['Class'].value_counts(): indexed by the label values that occur.
fraud_counts(rows) ==
    [c \in {rows[i].Class : i \in 1..Len(rows)} |->
        Cardinality({i \in 1..Len(rows) : rows[i].Class = c})]

\* value_counts(normalize=True) * 100, rounded to 4 decimals: units of 0.0001 %.
fraud_pct(rows) ==
    [c \in DOMAIN fraud_counts(rows) |->
        RoundHalfEven(fraud_counts(rows)[c] * 1000000, Len(rows))]

\* fraud_counts[0] and fraud_counts[1] look the labels up: KeyError when absent.
LabelsPresent(rows) == {0, 1} \subseteq DOMAIN fraud_counts(rows)

FraudSummary(rows) ==
    <<[Transaction_Type |-> "Legitimate", Count |-> fraud_counts(rows)[0],
       Percentage |-> fraud_pct(rows)[0]],
      [Transaction_Type |-> "Fraudulent", Count |-> fraud_counts(rows)[1],
       Percentage |-> fraud_pct(rows)[1]]>>

\* ---------------------------------------------- cell 6: amount statistics

Stats(s) ==
    IF s = <<>>
    THEN [Count |-> 0, Mean |-> NaN, Median |-> NaN, Min |-> NaN, Max |-> NaN]
    ELSE LET n      == Len(s)
             sorted == SortValues(s)
         IN  [Count  |-> n,
              Mean   |-> RoundHalfEven(SumSeq(s), 10 * n) * 10,
              Median |-> IF n % 2 = 1
                         THEN Round2(sorted[(n + 1) \div 2])
                         ELSE RoundHalfEven(sorted[n \div 2] + sorted[n \div 2 + 1], 20) * 10,
              Min    |-> Round2(MinOf(s)),
              Max    |-> Round2(MaxOf(s))]

AmountStats(rows) ==
    [Legitimate |-> Stats(Column(SelectSeq(rows, IsLegit), "Amount")),
     Fraudulent |-> Stats(Column(SelectSeq(rows, IsFraud), "Amount"))]

\* --------------------------------------------------- cell 7: risk bands

\* The six band names; as strings they sort in this order (numeric prefix),
\* which is the order groupby('amount_band') lists them in.
BandNames ==
    <<"1. Micro (< $10)", "2. Low ($10-$99)", "3. Medium ($100-$499)",
      "4. High ($500-$999)", "5. Premium ($1K-$4,999)", "6. Very High (>= $5K)">>

BandIndex(name) == CHOOSE k \in 1..Len(BandNames) : BandNames[k] = name

\* A boundary moved into the lower band: amount <= 10 instead of amount < 10.
assign_risk_band_inclusive(amount) ==
    IF amount <= Mills(10, 0) THEN BandNames[1]
    ELSE IF amount < Mills(100, 0) THEN BandNames[2]
    ELSE IF amount < Mills(500, 0) THEN BandNames[3]
    ELSE IF amount < Mills(1000, 0) THEN BandNames[4]
    ELSE IF amount < Mills(5000, 0) THEN BandNames[5]
    ELSE BandNames[6]

assign_risk_band(amount) ==
    IF amount < Mills(10, 0) THEN BandNames[1]
    ELSE IF amount < Mills(100, 0) THEN BandNames[2]
    ELSE IF amount < Mills(500, 0) THEN BandNames[3]
    ELSE IF amount < Mills(1000, 0) THEN BandNames[4]
    ELSE IF amount < Mills(5000, 0) THEN BandNames[5]
    ELSE BandNames[6]

\* The column attached, and Amount rounded to whole units on the way.
AttachBandClobber(rows) ==
    [i \in 1..Len(rows) |->
        [rows[i] EXCEPT !.Amount = (@ \div 1000) * 1000]
            @@ [amount_band |-> assign_risk_band(rows[i].Amount)]]

\* df['amount_band'] = df['Amount'].apply(assign_risk_band)
AttachBand(rows) ==
    [i \in 1..Len(rows) |->
        rows[i] @@ [amount_band |-> assign_risk_band(rows[i].Amount)]]

\* The groups of a groupby('amount_band') over the fraudulent rows only.
GroupKeysFraudOnly(rows) ==
    Ascending({BandIndex(rows[i].amount_band) : i \in {j \in 1..Len(rows) : rows[j].Class = 1}})

\* The groups of groupby('amount_band'): the bands that occur, in sorted order.
GroupKeys(rows) ==
    Ascending({BandIndex(rows[i].amount_band) : i \in 1..Len(rows)})

InBand(rows, k) == SelectSeq(rows, LAMBDA r : r.amount_band = BandNames[k])

\* groupby('amount_band').agg(...).reset_index(), then fraud_rate_pct
\* (2 decimals: units of 0.01 %).
BandAgg(rows) ==
    LET keys == GroupKeys(rows)
    IN  [g \in 1..Len(keys) |->
            LET grp == InBand(rows, keys[g])
            IN  [amount_band        |-> BandNames[keys[g]],
                 total_transactions |-> Len(grp),
                 fraud_count        |-> SumSeq(Column(grp, "Class")),
                 total_amount       |-> SumSeq(Column(grp, "Amount")),
                 fraud_rate_pct     |-> RoundHalfEven(SumSeq(Column(grp, "Class")) * 10000,
                                                      Len(grp))]]

\* df[df['Class']==1].groupby('amount_band')['Amount'].sum().values: one value
\* for each band that holds a fraudulent row.
FraudExposureValues(rows) ==
    LET fraud == SelectSeq(rows, IsFraud)
        keys  == GroupKeys(fraud)
    IN  [g \in 1..Len(keys) |-> SumSeq(Column(InBand(fraud, keys[g]), "Amount"))]

\* Assigning an array as a column needs as many values as the frame has rows.
ExposureFits(rows) == Len(FraudExposureValues(rows)) = Len(BandAgg(rows))

BandSummary(rows) ==
    [g \in 1..Len(BandAgg(rows)) |->
        BandAgg(rows)[g] @@ [fraud_exposure |-> FraudExposureValues(rows)[g]]]

\* ------------------------------------------------ cell 8: hour of the day

\* The hours since the origin, not folded onto a day.
hour_of_day_unfolded(t) == t \div 3600

\* (df['Time'] / 3600).astype(int) % 24; Time >= 0, so truncation is floor.
hour_of_day(t) == (t \div 3600) % 24

AttachHour(rows) ==
    [i \in 1..Len(rows) |-> rows[i] @@ [hour_of_day |-> hour_of_day(rows[i].Time)]]

\* groupby(['hour_of_day', 'Class']).size().unstack(fill_value=0).reset_index():
\* one row for each hour that occurs, one count column for each label that occurs.
HourKeys(rows) == Ascending({rows[i].hour_of_day : i \in 1..Len(rows)})

\* hourly.columns = ['hour', 'legitimate', 'fraudulent'] needs three columns.
HourlyColumnsFit(rows) == 1 + Cardinality(DOMAIN fraud_counts(rows)) = 3

\* fraud_rate has 4 decimals: units of 0.0001 %.
Hourly(rows) ==
    LET keys == HourKeys(rows)
    IN  [g \in 1..Len(keys) |->
            LET grp == SelectSeq(rows, LAMBDA r : r.hour_of_day = keys[g])
                l   == Len(SelectSeq(grp, IsLegit))
                f   == Len(SelectSeq(grp, IsFraud))
            IN  [hour |-> keys[g], legitimate |-> l, fraudulent |-> f,
                 fraud_rate |-> RoundHalfEven(f * 1000000, l + f)]]

\* ---------------------------------------------------- cell 9: correlation

IsConstant(x) == \A i, j \in 1..Len(x) : x[i] = x[j]

\* The sign of Pearson's r of two columns; NaN when either has no variance,
\* 1 for a column with itself.
CorrSign(x, y) ==
    IF IsConstant(x) \/ IsConstant(y) THEN NaN
    ELSE IF x = y THEN 1
    ELSE LET n   == Len(x)
             cov == n * SumSeq([i \in 1..n |-> x[i] * y[i]]) - SumSeq(x) * SumSeq(y)
         IN  IF cov > 0 THEN 1 ELSE IF cov < 0 THEN -1 ELSE 0

CorrMatrix(rows) ==
    [p \in {"Amount", "Class"} \X {"Amount", "Class"} |->
        CorrSign(Column(rows, p[1]), Column(rows, p[2]))]

\* ------------------------------------------- cell 10: executive summary

\* The amounts of all the rows, whatever their label.
TotalFraudExposureAllRows(rows) == Round2(SumSeq(Column(rows, "Amount")))

\* round(df[df['Class']==1]['Amount'].sum(), 2)
TotalFraudExposure(rows) == Round2(SumSeq(Column(SelectSeq(rows, IsFraud), "Amount")))

\* hourly.loc[hourly['fraud_rate'].idxmax()]
PeakRow(h) == h[IdxMax(Column(h, "fraud_rate"))]

ExecSummary(rows, h, b) ==
    [total_txns     |-> Len(rows),
     total_fraud    |-> SumSeq(Column(rows, "Class")),
     fraud_rate     |-> IF Len(rows) = 0 THEN NaN
                        ELSE RoundHalfEven(SumSeq(Column(rows, "Class")) * 1000000, Len(rows)),
     total_volume   |-> Round2(SumSeq(Column(rows, "Amount"))),
     fraud_exposure |-> TotalFraudExposure(rows),
     avg_fraud_amt  |-> Stats(Column(SelectSeq(rows, IsFraud), "Amount")).Mean,
     avg_legit_amt  |-> Stats(Column(SelectSeq(rows, IsLegit), "Amount")).Mean,
     peak_hour      |-> PeakRow(h).hour,
     highest_band   |-> b[IdxMax(Column(b, "fraud_rate_pct"))].amount_band]

\* ---------------------------------------------------------------- the run

\* An unhandled exception: the interpreter stops, nothing later runs.
Crash(cell, type) ==
    /\ pc' = "crashed"
    /\ error' = [at |-> cell, type |-> type]

Advance(next) ==
    /\ pc' = next
    /\ UNCHANGED error

Bind(names) == bound' = bound \cup names

InitWith(T, A) ==
    /\ pc = "cell2"
    /\ csv \in {MissingFile} \cup {File(t) : t \in Tables(T, A) \cup {ScenarioTable}}
    /\ bound = {}
    /\ df = Unbound
    /\ error = NoError
    /\ dupes = 0
    /\ fraud_summary = Unbound
    /\ amount_stats = Unbound
    /\ band_summary = Unbound
    /\ hourly = Unbound
    /\ corr_matrix = Unbound
    /\ summary = Unbound
    /\ charts = {}

Init == InitWith(Times, Amounts)

InitBands == InitWith({0}, BoundaryAmounts)

InitHours == InitWith(BoundaryTimes, {Mills(5, 0)})

\* The load failure swallowed: the run goes on with an empty table.
Cell2Swallow ==
    /\ pc = "cell2"
    /\ df' = csv.rows
    /\ Bind({"df"})
    /\ Advance("cell3")
    /\ UNCHANGED <<csv, dupes, views, charts>>

\* CELL 2: df = pd.read_csv("creditcard.csv")
Cell2 ==
    /\ pc = "cell2"
    /\ IF csv.readable
       THEN df' = csv.rows /\ Bind({"df"}) /\ Advance("cell3")
       ELSE Crash("cell2", "FileNotFoundError") /\ UNCHANGED <<df, bound>>
    /\ UNCHANGED <<csv, dupes, views, charts>>

\* CELL 3: dtypes and describe(), printed only.
Cell3 ==
    /\ pc = "cell3"
    /\ Advance("cell4")
    /\ UNCHANGED <<csv, bound, df, dupes, views, charts>>

\* CELL 4: the missing-value audit (printed only) and df.duplicated().sum().
Cell4 ==
    /\ pc = "cell4"
    /\ dupes' = Cardinality({i \in 1..Len(df) : \E j \in 1..(i - 1) : df[j] = df[i]})
    /\ Bind({"dupes"})
    /\ Advance("cell5")
    /\ UNCHANGED <<csv, df, views, charts>>

\* CELL 5: the class distribution, its report and its chart.
Cell5 ==
    /\ pc = "cell5"
    /\ IF LabelsPresent(df)
       THEN /\ fraud_summary' = FraudSummary(df)
            /\ Bind({"fraud_summary"})
            /\ charts' = charts \cup {"outputs/01_class_distribution.png"}
            /\ Advance("cell6")
       ELSE /\ Crash("cell5", "KeyError")
            /\ UNCHANGED <<fraud_summary, bound, charts>>
    /\ UNCHANGED <<csv, df, dupes, amount_stats, band_summary, hourly, corr_matrix, summary>>

\* CELL 6: the amount statistics of each label, and their chart.
Cell6 ==
    /\ pc = "cell6"
    /\ amount_stats' = AmountStats(df)
    /\ Bind({"amount_stats"})
    /\ charts' = charts \cup {"outputs/02_amount_analysis.png"}
    /\ Advance("cell7")
    /\ UNCHANGED <<csv, df, dupes, fraud_summary, band_summary, hourly, corr_matrix, summary>>

\* CELL 7: the band column, the band summary and its chart.  The column and
\* the summary without fraud_exposure are bound before line 158 can raise.
Cell7 ==
    /\ pc = "cell7"
    /\ df' = AttachBand(df)
    /\ Bind({"band_summary"})
    /\ IF ExposureFits(df')
       THEN /\ band_summary' = BandSummary(df')
            /\ charts' = charts \cup {"outputs/03_fraud_rate_by_amount_band.png"}
            /\ Advance("cell8")
       ELSE /\ band_summary' = BandAgg(df')
            /\ Crash("cell7", "ValueError")
            /\ UNCHANGED charts
    /\ UNCHANGED <<csv, dupes, fraud_summary, amount_stats, hourly, corr_matrix, summary>>

\* CELL 8: the hour column, the hourly summary and its chart.  An hourly frame
\* that cannot take the three column names stays bound as the groupby left it.
Cell8 ==
    /\ pc = "cell8"
    /\ df' = AttachHour(df)
    /\ Bind({"hourly"})
    /\ IF HourlyColumnsFit(df')
       THEN /\ hourly' = Hourly(df')
            /\ charts' = charts \cup {"outputs/04_time_fraud_analysis.png"}
            /\ Advance("cell9")
       ELSE /\ hourly' = HourKeys(df')
            /\ Crash("cell8", "ValueError")
            /\ UNCHANGED charts
    /\ UNCHANGED <<csv, dupes, fraud_summary, amount_stats, band_summary, corr_matrix, summary>>

\* CELL 9: the correlation matrix and its heatmap.
Cell9 ==
    /\ pc = "cell9"
    /\ corr_matrix' = CorrMatrix(df)
    /\ Bind({"corr_matrix"})
    /\ charts' = charts \cup {"outputs/05_correlation_heatmap.png"}
    /\ Advance("cell10")
    /\ UNCHANGED <<csv, df, dupes, fraud_summary, amount_stats, band_summary, hourly, summary>>

\* CELL 10: the executive summary.
Cell10 ==
    /\ pc = "cell10"
    /\ summary' = ExecSummary(df, hourly, band_summary)
    /\ Bind({"summary"})
    /\ Advance("done")
    /\ UNCHANGED <<csv, df, dupes, fraud_summary, amount_stats, band_summary, hourly,
                   corr_matrix, charts>>

Next ==
    \/ Cell2
    \/ Cell3
    \/ Cell4
    \/ Cell5
    \/ Cell6
    \/ Cell7
    \/ Cell8
    \/ Cell9
    \/ Cell10

Spec == Init /\ [][Next]_vars

SpecBands == InitBands /\ [][Next]_vars

SpecHours == InitHours /\ [][Next]_vars

\* ------------------------------------------------------------ properties

CellNo ==
    [cell2 |-> 2, cell3 |-> 3, cell4 |-> 4, cell5 |-> 5, cell6 |-> 6, cell7 |-> 7,
     cell8 |-> 8, cell9 |-> 9, cell10 |-> 10, done |-> 11]

\* Cell n has run, to its end or to the exception it raised.
Ran(n) == IF pc = "crashed" THEN CellNo[error.at] >= n ELSE CellNo[pc] > n

\* Cell n has run to its end.
Completed(n) == IF pc = "crashed" THEN CellNo[error.at] > n ELSE CellNo[pc] > n

Rows(P(_)) == {i \in 1..Len(df) : P(df[i])}

RECURSIVE SumOver(_, _)
SumOver(S, column) ==
    IF S = {} THEN 0
    ELSE LET i == CHOOSE x \in S : TRUE
         IN  df[i][column] + SumOver(S \ {i}, column)

\* The lower limit of each band, in whole currency units.
BandFloor == <<0, 10, 100, 500, 1000, 5000>>

\* C1: every transaction with amount >= 0 carries exactly one band, the one
\* whose half-open interval [floor, next floor) holds its amount; a boundary
\* value belongs to the higher band.
C1_BandPartition ==
    "band_summary" \in bound =>
        \A i \in 1..Len(df) :
            /\ \E k \in 1..6 : df[i].amount_band = BandNames[k]
            /\ \A k \in 1..6 :
                 (df[i].amount_band = BandNames[k]) <=>
                     /\ df[i].Amount >= Mills(BandFloor[k], 0)
                     /\ k < 6 => df[i].Amount < Mills(BandFloor[k + 1], 0)

C1_Witness ==
    /\ "band_summary" \in bound
    /\ \E i, j \in 1..Len(df) :
         /\ df[i].Amount = Mills(9, 990) /\ df[i].amount_band = BandNames[1]
         /\ df[j].Amount = Mills(10, 0) /\ df[j].amount_band = BandNames[2]

\* C2: once the band cell has run, no error was raised in it and the
\* fraud_exposure of every band of the summary is the sum of the amounts of
\* the fraudulent transactions of that band (0 for a band without any).
C2_BandFraudExposure ==
    Ran(7) =>
        /\ error.at # "cell7"
        /\ \A g \in 1..Len(band_summary) :
             band_summary[g].fraud_exposure =
                 SumOver(Rows(LAMBDA r : r.amount_band = band_summary[g].amount_band
                                         /\ r.Class = 1), "Amount")

\* C3: the total_transactions of the band summary add up to the number of
\* transactions, and its fraud_count to the number of fraudulent ones.
C3_BandCountsAddUp ==
    "band_summary" \in bound =>
        /\ SumSeq(Column(band_summary, "total_transactions")) = Len(df)
        /\ SumSeq(Column(band_summary, "fraud_count")) = Cardinality(Rows(IsFraud))

C3_Witness ==
    /\ "band_summary" \in bound
    /\ Len(band_summary) >= 2
    /\ Rows(IsFraud) # {}
    /\ Rows(IsLegit) # {}

\* C4: the hourly summary has an entry for each of the hours 0..23, and the
\* fraud_rate of an hour without transactions is 0.
C4_AllHoursListed ==
    Completed(8) =>
        /\ {hourly[g].hour : g \in 1..Len(hourly)} = 0..23
        /\ \A g \in 1..Len(hourly) :
             hourly[g].legitimate + hourly[g].fraudulent = 0 => hourly[g].fraud_rate = 0

\* C5: hour_of_day of a transaction with timestamp t >= 0 is the hour of the
\* day t falls in: it lies in 0..23 and t, folded onto one day, lies in that
\* hour; t = 90000 gives hour 1.
C5_HourOfDay ==
    "hourly" \in bound =>
        \A i \in 1..Len(df) :
            /\ df[i].hour_of_day \in 0..23
            /\ df[i].Time % 86400 >= 3600 * df[i].hour_of_day
            /\ df[i].Time % 86400 < 3600 * (df[i].hour_of_day + 1)
            /\ df[i].Time = 90000 => df[i].hour_of_day = 1

C5_Witness ==
    /\ "hourly" \in bound
    /\ \E i, j \in 1..Len(df) :
         /\ df[i].Time = 90000 /\ df[i].hour_of_day = 1
         /\ df[j].Time = 1000000000 /\ df[j].hour_of_day \in 0..23

Loaded == "df" \in bound

AllLabels(c) == Len(df) > 0 /\ \A i \in 1..Len(df) : df[i].Class = c

\* C6: for a table that holds one label only, the class-balance cell raises
\* no error, reports 0 % for the absent label and 100 % for the present one,
\* and the run goes on to the cells after it.
C6_SingleClassBalance ==
    (Loaded /\ (AllLabels(0) \/ AllLabels(1)) /\ Ran(5)) =>
        /\ pc # "crashed"
        /\ "fraud_summary" \in bound
        /\ fraud_summary[1].Percentage = (IF AllLabels(0) THEN 1000000 ELSE 0)
        /\ fraud_summary[2].Percentage = (IF AllLabels(1) THEN 1000000 ELSE 0)

\* The fraud rate of hour h over the table, 0 for an hour without transactions;
\* rates are compared as fractions f / n, by cross-multiplication.
HourFraud(h) == Cardinality({i \in 1..Len(df) : df[i].hour_of_day = h /\ df[i].Class = 1})
HourTotal(h) == Cardinality({i \in 1..Len(df) : df[i].hour_of_day = h})
RateAtMost(h, k) ==
    IF HourTotal(h) = 0 THEN TRUE
    ELSE IF HourTotal(k) = 0 THEN HourFraud(h) = 0
    ELSE HourFraud(h) * HourTotal(k) <= HourFraud(k) * HourTotal(h)

\* The lowest hour of 0..23 whose fraud rate is the maximum.
FirstPeakHour ==
    CHOOSE h \in 0..23 :
        /\ \A k \in 0..23 : RateAtMost(k, h)
        /\ \A k \in 0..(h - 1) : ~RateAtMost(h, k)

\* The first half of C7 alone: the peak hour of a run that reaches the
\* executive summary is the lowest hour holding the maximum fraud rate.
PeakHourIsFirstMaximum == pc = "done" => summary.peak_hour = FirstPeakHour

\* C7: the peak fraud hour of the executive summary is the lowest hour of
\* 0..23 whose fraud rate is the maximum; a table whose labels are all 0 runs
\* to the end, and its peak fraud hour is 0.
C7_PeakHour ==
    /\ pc = "done" => summary.peak_hour = FirstPeakHour
    /\ (Loaded /\ AllLabels(0) /\ pc \in {"done", "crashed"}) =>
           pc = "done" /\ summary.peak_hour = 0

\* C8: when the input file cannot be read the run stops at the load step: no
\* name is bound (no table, no view) and no chart file is written.
C8_LoadFailureStops ==
    (~csv.readable /\ pc # "cell2") =>
        /\ pc = "crashed"
        /\ error = [at |-> "cell2", type |-> "FileNotFoundError"]
        /\ bound = {}
        /\ charts = {}

C8_Witness == ~csv.readable /\ pc = "crashed"

====
